---- MODULE Spec2Model ----
(***************************************************************************)
(* Student dashboard page (client/src/pages/course/student/dashboard.tsx). *)
(*                                                                         *)
(* The page keeps six pieces of React state, starts one fetch batch on     *)
(* mount and on every change of props.course.id, and renders a list of     *)
(* cards from the state.  The pure helpers tasksToEvents,                   *)
(* createCourseEventFromTask and checkTaskResults are operators.           *)
(*                                                                         *)
(* Date strings are modelled as tuples of decimal digits <<d1, d2, h>>:    *)
(* a two-digit day and one digit for the time of day (0 is midnight).      *)
(* The empty string is <<>>.  String comparison is lexicographic on the    *)
(* digits, parsing (moment(...)) reads the digits as a decimal instant,    *)
(* so the two are different computations, as in the code.                  *)
(***************************************************************************)
EXTENDS Integers, Sequences, FiniteSets, TLC

VARIABLES
    course,          \* props.course.id
    browserParses,   \* does new Date('YYYY MM DD') give a valid date in this browser
    today,           \* the calendar day moment() falls on
    callId,          \* number of fetch batches started so far
    inflight,        \* fetch batches started and not settled: [id, course]
    studentSummary,  \* useState: studentSummary
    courseTasks,     \* useState: courseTasks
    tasksDetail,     \* useState: tasksDetail
    nextEvents,      \* useState: nextEvents
    loading,         \* useState: loading
    notifications,   \* number of message.error calls so far
    crashed,         \* a render has thrown: the page is unmounted
    last             \* the last step taken, with the inputs it used

vars == <<course, browserParses, today, callId, inflight, studentSummary,
          courseTasks, tasksDetail, nextEvents, loading, notifications,
          crashed, last>>

-----------------------------------------------------------------------------
(* Bounds *)

MaxTasks == 2        \* longest fetched task list (specification SpecDerive)
MaxEvents == 1       \* longest fetched event list (specification SpecDerive)
MaxPageTasks == 1    \* longest fetched task list (specification Spec)
MaxFetches == 2      \* fetch batches started in one behaviour
FirstDay == 9        \* first calendar day of a behaviour
LastDay == 10        \* last calendar day of a behaviour

Courses == {1, 2}
Days == FirstDay..LastDay

-----------------------------------------------------------------------------
(* Values *)

NoDate == <<-1>>              \* studentStartDate / studentEndDate absent (null)
EmptyString == <<>>           \* ''

TaskTypes == [deadline |-> "deadline", test |-> "test",
              newtask |-> "newtask", lecture |-> "lecture"]

AllTaskTypes == {TaskTypes.deadline, TaskTypes.test, TaskTypes.newtask, TaskTypes.lecture}

\* useState({} as StudentSummary): an object with no fields
InitialSummary == [isNull |-> FALSE, hasResults |-> FALSE, results |-> <<>>, mentor |-> FALSE]

\* a summary request that resolves to null (no access / unknown user)
NullSummary == [isNull |-> TRUE, hasResults |-> FALSE, results |-> <<>>, mentor |-> FALSE]

-----------------------------------------------------------------------------
(* Sequences *)

Range(s) == {s[i] : i \in 1..Len(s)}

RECURSIVE SeqsUpTo(_, _)
SeqsUpTo(S, n) ==
    IF n = 0 THEN {<<>>}
    ELSE LET shorter == SeqsUpTo(S, n - 1)
         IN  shorter \cup {Append(s, x) : s \in {t \in shorter : Len(t) = n - 1}, x \in S}

-----------------------------------------------------------------------------
(* Strings and moments *)

\* a || '' : null and '' are both falsy
OrEmpty(s) == IF s = NoDate \/ s = EmptyString THEN EmptyString ELSE s

\* a.localeCompare(b) on digit strings: -1, 0 or 1
RECURSIVE localeCompare(_, _)
localeCompare(a, b) ==
    IF a = <<>> /\ b = <<>> THEN 0
    ELSE IF a = <<>> THEN -1
    ELSE IF b = <<>> THEN 1
    ELSE IF a[1] < b[1] THEN -1
    ELSE IF a[1] > b[1] THEN 1
    ELSE localeCompare(Tail(a), Tail(b))

Invalid == -1

\* moment(s): the instant a date string denotes, Invalid for '' and null
moment(s) ==
    IF s = EmptyString \/ s = NoDate THEN Invalid
    ELSE 100 * s[1] + 10 * s[2] + s[3]

startOfDay(m) == m - (m % 10)
endOfDay(m) == startOfDay(m) + 9

\* moment().startOf('day')
startOfToday(day) == 10 * day

\* a.isAfter(b)
isAfter(a, b) == a # Invalid /\ b # Invalid /\ a > b

\* moment().format('YYYY MM DD'): the day, without a time of day
currentDate(day) == <<day \div 10, day % 10>>

\* moment(input) for the non-ISO string 'YYYY MM DD': moment falls back to
\* new Date(input), which gives local midnight or an invalid date
momentFallback(s, parses) ==
    IF parses THEN 10 * (10 * s[1] + s[2]) ELSE Invalid

\* a.isBefore(input, 'date') and a.isAfter(input, 'date')
isBeforeDate(a, input) == a # Invalid /\ input # Invalid /\ endOfDay(a) < input
isAfterDate(a, input) == a # Invalid /\ input # Invalid /\ input < startOfDay(a)

-----------------------------------------------------------------------------
(* Event Deriver *)

\* faulty variant: the end date is taken for the test event as well
createCourseEventEndForTest(task, type) ==
    [id |-> task.id,
     dateTime |-> OrEmpty(IF type = TaskTypes.deadline \/ type = TaskTypes.test
                          THEN task.studentEndDate
                          ELSE task.studentStartDate),
     event |-> [type |-> type, name |-> task.name]]

createCourseEventFromTask(task, type) ==
    [id |-> task.id,
     dateTime |-> OrEmpty(IF type = TaskTypes.deadline
                          THEN task.studentEndDate
                          ELSE task.studentStartDate),
     event |-> [type |-> type, name |-> task.name]]

\* faulty variant: a task of type deadline gets its deadline event only
eventsOfTaskOneForDeadline(task) ==
    (IF task.type # TaskTypes.test /\ task.type # TaskTypes.deadline
     THEN <<createCourseEventFromTask(task, task.type)>>
     ELSE <<>>)
    \o <<createCourseEventFromTask(task,
            IF task.type = TaskTypes.test THEN TaskTypes.test ELSE TaskTypes.deadline)>>

\* the events one step of the reduce pushes for a task
eventsOfTask(task) ==
    (IF task.type # TaskTypes.test
     THEN <<createCourseEventFromTask(task, task.type)>>
     ELSE <<>>)
    \o <<createCourseEventFromTask(task,
            IF task.type = TaskTypes.test THEN TaskTypes.test ELSE TaskTypes.deadline)>>

RECURSIVE tasksToEvents(_)
tasksToEvents(tasks) ==
    IF tasks = <<>> THEN <<>>
    ELSE eventsOfTask(Head(tasks)) \o tasksToEvents(Tail(tasks))

-----------------------------------------------------------------------------
(* Event Merger *)

\* stable insertion by the comparator (a, b) => a.dateTime.localeCompare(b.dateTime)
RECURSIVE insertByDateTime(_, _)
insertByDateTime(sorted, e) ==
    IF sorted = <<>> THEN <<e>>
    ELSE IF localeCompare(Head(sorted).dateTime, e.dateTime) <= 0
         THEN <<Head(sorted)>> \o insertByDateTime(Tail(sorted), e)
         ELSE <<e>> \o sorted

RECURSIVE sortByDateTime(_)
sortByDateTime(events) ==
    IF events = <<>> THEN <<>>
    ELSE insertByDateTime(sortByDateTime(SubSeq(events, 1, Len(events) - 1)),
                          events[Len(events)])

\* faulty variant: isSameOrAfter instead of isAfter
isUpcomingOrNow(event, day) ==
    moment(event.dateTime) # Invalid /\ moment(event.dateTime) >= startOfToday(day)

isUpcoming(event, day) == isAfter(moment(event.dateTime), startOfToday(day))

computeNextEvents(courseEvents, tasks, day) ==
    SelectSeq(sortByDateTime(courseEvents \o tasksToEvents(tasks)),
              LAMBDA event : isUpcoming(event, day))

-----------------------------------------------------------------------------
(* Task Classifier *)

\* results.find(task => task.courseTaskId === taskId): <<result>> or <<>> (undefined)
checkTaskResults(results, taskId) ==
    LET found == SelectSeq(results, LAMBDA r : r.courseTaskId = taskId)
    IN  IF found = <<>> THEN <<>> ELSE <<Head(found)>>

hasResult(summary, task) == checkTaskResults(summary.results, task.id) # <<>>

\* tasksDetail.find(taskDetail => taskDetail.name === task.name) ?? {}
detailScore(details, task) ==
    LET found == SelectSeq(details, LAMBDA d : d.name = task.name)
    IN  IF found = <<>> THEN "undefined" ELSE Head(found).score

tasksCompleted(tasks, summary, details) ==
    LET kept == SelectSeq(tasks, LAMBDA task : hasResult(summary, task))
    IN  [i \in 1..Len(kept) |-> [task |-> kept[i], score |-> detailScore(details, kept[i])]]

tasksNotDone(tasks, summary, day, parses) ==
    LET kept == SelectSeq(tasks, LAMBDA task :
                    /\ isBeforeDate(moment(task.studentEndDate),
                                    momentFallback(currentDate(day), parses))
                    /\ ~hasResult(summary, task))
    IN  [i \in 1..Len(kept) |-> [task |-> kept[i], score |-> "0"]]

tasksFuture(tasks, summary, day, parses) ==
    LET kept == SelectSeq(tasks, LAMBDA task :
                    /\ isAfterDate(moment(task.studentEndDate),
                                   momentFallback(currentDate(day), parses))
                    /\ ~hasResult(summary, task))
    IN  [i \in 1..Len(kept) |-> [task |-> kept[i], score |-> "null"]]

\* studentSummary.results is read for each task: a TypeError when the summary
\* is null, and results.find is a TypeError when results is undefined
renderThrows(summary, tasks) ==
    tasks # <<>> /\ (summary.isNull \/ ~summary.hasResults)

-----------------------------------------------------------------------------
(* Card Assembler *)

Falsy == {"null", "undefined", "0"}

cardsBeforeFilter(summary, tasks) ==
    << IF summary.isNull THEN "null" ELSE "main-stats",
       "repository",
       IF summary.isNull \/ ~summary.mentor THEN "undefined" ELSE "mentor",
       IF Len(tasks) = 0 THEN "0" ELSE "task-stats",
       "next-events" >>

\* faulty variant: the list is not filtered
cardsUnfiltered(summary, tasks) == cardsBeforeFilter(summary, tasks)

\* [...].filter(Boolean)
cards(summary, tasks) ==
    SelectSeq(cardsBeforeFilter(summary, tasks), LAMBDA c : c \notin Falsy)

\* what the page shows
view(summary, tasks) ==
    IF renderThrows(summary, tasks) THEN [kind |-> "error", cards |-> <<>>]
    ELSE IF summary.isNull THEN [kind |-> "no-access", cards |-> <<>>]
    ELSE [kind |-> "cards", cards |-> cards(summary, tasks)]

-----------------------------------------------------------------------------
(* What the services can return *)

\* the k-th task of course c; ids and names are unique
taskOf(c, k, shape) ==
    [id |-> 10 * c + k, name |-> 10 * c + k, type |-> shape[1],
     studentStartDate |-> shape[2], studentEndDate |-> shape[3]]

taskListsOf(c, shapes, n) ==
    UNION {{[k \in 1..len |-> taskOf(c, k, f[k])] : f \in [1..len -> shapes]} : len \in 0..n}

courseEventOf(c, dateTime) ==
    [id |-> 100 * c, dateTime |-> dateTime,
     event |-> [type |-> "lecture", name |-> 100 * c]]

summaryOf(ids, mentor) ==
    [isNull |-> FALSE, hasResults |-> TRUE,
     results |-> [i \in 1..Len(ids) |-> [courseTaskId |-> ids[i]]],
     mentor |-> mentor]

\* getProfileInfo: studentStats may be missing, and may lack the course
noStats == [hasStudentStats |-> FALSE, studentStats |-> <<>>]
statsOf(cs) ==
    [hasStudentStats |-> TRUE,
     studentStats |-> [i \in 1..Len(cs) |->
        [courseId |-> cs[i],
         tasks |-> <<[name |-> 10 * cs[i] + 1, score |-> "80"]>>]]]

response(summary, tasks, stats, events) ==
    [studentSummary |-> summary, courseTasks |-> tasks,
     statisticsCourses |-> stats, courseEvents |-> events]

\* the responses of the page specification: every kind of summary, few tasks
PageShapes == {<<TaskTypes.newtask, <<0, 9, 1>>, <<1, 0, 0>>>>}
PageResponses(c) ==
    {response(su, ts, st, ev) :
        su \in {NullSummary, summaryOf(<<>>, FALSE), summaryOf(<<10 * c + 1>>, TRUE)},
        ts \in taskListsOf(c, PageShapes, MaxPageTasks),
        st \in {noStats, statsOf(<<3 - c, c>>)},
        ev \in {<<>>, <<courseEventOf(c, <<1, 0, 1>>)>>}}

\* the responses of the derivation specification: every kind of task and date
DeriveShapes ==
    AllTaskTypes \X {NoDate, <<1, 0, 0>>} \X {NoDate, <<0, 9, 1>>, <<1, 0, 1>>}
DeriveResponses(c) ==
    {response(su, ts, st, ev) :
        su \in {summaryOf(<<>>, FALSE), summaryOf(<<10 * c + 1>>, FALSE)},
        ts \in taskListsOf(c, DeriveShapes, MaxTasks),
        st \in {statsOf(<<c>>)},
        ev \in SeqsUpTo({courseEventOf(c, <<1, 0, 2>>)}, MaxEvents)}

-----------------------------------------------------------------------------
(* The page *)

\* statisticsCourses.studentStats?.find(course => course.courseId === id)?.tasks ?? []
tasksDetailCurrentCourse(stats, id) ==
    IF ~stats.hasStudentStats THEN <<>>
    ELSE LET found == SelectSeq(stats.studentStats, LAMBDA st : st.courseId = id)
         IN  IF found = <<>> THEN <<>> ELSE Head(found).tasks

NoResponse == response(InitialSummary, <<>>, noStats, <<>>)

step(op, f, resp, day, rejected) ==
    [op |-> op, id |-> f.id, course |-> f.course, resp |-> resp, day |-> day,
     rejected |-> rejected]

\* the page is mounted for course 1; the courses are interchangeable
Init ==
    /\ course = 1
    /\ browserParses \in BOOLEAN
    /\ today \in Days
    /\ callId = 0
    /\ inflight = {}
    /\ studentSummary = InitialSummary
    /\ courseTasks = <<>>
    /\ tasksDetail = <<>>
    /\ nextEvents = <<>>
    /\ loading = FALSE
    /\ notifications = 0
    /\ crashed = FALSE
    /\ last = step("init", [id |-> 0, course |-> course], NoResponse, today, 0)

\* the useAsync callback up to its await: setLoading(true) and the four requests
startFetch(c) ==
    LET f == [id |-> callId + 1, course |-> c]
    IN  /\ callId' = callId + 1
        /\ inflight' = inflight \cup {f}
        /\ loading' = TRUE
        /\ last' = step("start", f, NoResponse, today, 0)
        /\ UNCHANGED <<browserParses, today, studentSummary, courseTasks,
                       tasksDetail, nextEvents, notifications, crashed>>

\* the effect runs after the first render
Mount ==
    /\ ~crashed
    /\ callId = 0
    /\ startFetch(course)
    /\ UNCHANGED course

\* props.course.id changes: the effect runs again, earlier batches keep running
ChangeCourse(c) ==
    /\ ~crashed
    /\ callId > 0
    /\ callId < MaxFetches
    /\ c # course
    /\ course' = c
    /\ startFetch(c)

\* faulty variant: only the response of the latest batch is kept
appliesLatestOnly(f) == f.id = callId

\* does the page keep the response of batch f (the callback has no such test)
applies(f) == TRUE

\* Promise.all resolved: lines 46-58, then finally
Resolve(f, resp) ==
    /\ ~crashed
    /\ f \in inflight
    /\ inflight' = inflight \ {f}
    /\ IF applies(f)
       THEN /\ nextEvents' = computeNextEvents(resp.courseEvents, resp.courseTasks, today)
            /\ studentSummary' = resp.studentSummary
            /\ courseTasks' = resp.courseTasks
            /\ tasksDetail' = tasksDetailCurrentCourse(resp.statisticsCourses, f.course)
            /\ crashed' = renderThrows(resp.studentSummary, resp.courseTasks)
       ELSE UNCHANGED <<nextEvents, studentSummary, courseTasks, tasksDetail, crashed>>
    /\ loading' = FALSE
    /\ last' = step("resolve", f, resp, today, 0)
    /\ UNCHANGED <<course, browserParses, today, callId, notifications>>

\* faulty variant: setLoading(false) only on success, no finally
RejectWithoutFinally(f, r) ==
    /\ ~crashed
    /\ f \in inflight
    /\ inflight' = inflight \ {f}
    /\ notifications' = notifications + 1
    /\ last' = step("reject", f, NoResponse, today, r)
    /\ UNCHANGED <<course, browserParses, today, callId, studentSummary,
                   courseTasks, tasksDetail, nextEvents, crashed, loading>>

\* Promise.all rejected because request r rejected first: catch, then finally
Reject(f, r) ==
    /\ ~crashed
    /\ f \in inflight
    /\ inflight' = inflight \ {f}
    /\ notifications' = notifications + 1
    /\ loading' = FALSE
    /\ last' = step("reject", f, NoResponse, today, r)
    /\ UNCHANGED <<course, browserParses, today, callId, studentSummary,
                   courseTasks, tasksDetail, nextEvents, crashed>>

\* midnight passes
Tick ==
    /\ ~crashed
    /\ today < LastDay
    /\ today' = today + 1
    /\ last' = step("tick", [id |-> 0, course |-> course], NoResponse, today + 1, 0)
    /\ UNCHANGED <<course, browserParses, callId, inflight, studentSummary,
                   courseTasks, tasksDetail, nextEvents, loading, notifications,
                   crashed>>

Requests == 1..4

Next ==
    \/ Mount
    \/ \E c \in Courses : ChangeCourse(c)
    \/ \E f \in inflight : \E resp \in PageResponses(f.course) : Resolve(f, resp)
    \/ \E f \in inflight : \E r \in Requests : Reject(f, r)
    \/ Tick

Spec == Init /\ [][Next]_vars

\* one course, one fetch on mount on a day drawn by Init, every kind of task list
NextDerive ==
    \/ Mount
    \/ \E f \in inflight : \E resp \in DeriveResponses(f.course) : Resolve(f, resp)
    \/ \E f \in inflight : \E r \in Requests : Reject(f, r)

SpecDerive == Init /\ [][NextDerive]_vars

-----------------------------------------------------------------------------
(* Properties *)

isTest(task) == task.type = TaskTypes.test

\* number of events the tasks before position i account for
RECURSIVE eventsBefore(_, _)
eventsBefore(tasks, i) ==
    IF i <= 1 THEN 0
    ELSE eventsBefore(tasks, i - 1) + (IF isTest(tasks[i - 1]) THEN 1 ELSE 2)

derived == tasksToEvents(courseTasks)
eventAt(events, tasks, i, k) == events[eventsBefore(tasks, i) + k]
firstEventOf(i) == eventAt(derived, courseTasks, i, 1)
secondEventOf(i) == eventAt(derived, courseTasks, i, 2)

\* C1: tasksToEvents emits, in task-list order, one event for each test task
\* and two consecutive events for each other task, whatever the dates are:
\* the output length is (test tasks) + 2 * (other tasks).
C1_OneOrTwoEventsPerTask ==
    LET events == derived
    IN  /\ Len(events) = eventsBefore(courseTasks, Len(courseTasks) + 1)
        /\ Len(events) = Cardinality({i \in 1..Len(courseTasks) : isTest(courseTasks[i])})
                         + 2 * Cardinality({i \in 1..Len(courseTasks) : ~isTest(courseTasks[i])})
        /\ \A i \in 1..Len(courseTasks) :
              /\ eventAt(events, courseTasks, i, 1).id = courseTasks[i].id
              /\ ~isTest(courseTasks[i]) =>
                    eventAt(events, courseTasks, i, 2).id = courseTasks[i].id

C1_Witness ==
    /\ Len(courseTasks) = 2
    /\ ~isTest(courseTasks[1]) /\ isTest(courseTasks[2])
    /\ courseTasks[1].studentStartDate = NoDate
    /\ courseTasks[1].studentEndDate = NoDate
    /\ Len(derived) = 3

\* C2: for every non-test task the first event has the task's own type and
\* its studentStartDate (or ''), the second has type deadline and its
\* studentEndDate (or '').
C2_StartThenDeadline ==
    \A i \in 1..Len(courseTasks) :
        ~isTest(courseTasks[i]) =>
            /\ firstEventOf(i).event.type = courseTasks[i].type
            /\ firstEventOf(i).dateTime = OrEmpty(courseTasks[i].studentStartDate)
            /\ secondEventOf(i).event.type = TaskTypes.deadline
            /\ secondEventOf(i).dateTime = OrEmpty(courseTasks[i].studentEndDate)

\* C3 as stated: the single event of a test task has type test and the
\* task's studentEndDate.
C3_TestEventAtEndDate ==
    \A i \in 1..Len(courseTasks) :
        isTest(courseTasks[i]) =>
            /\ firstEventOf(i).event.type = TaskTypes.test
            /\ firstEventOf(i).dateTime = OrEmpty(courseTasks[i].studentEndDate)

\* C3 amended: the single event of a test task has type test and the task's
\* studentStartDate (or '' if absent).
C3_TestEventAtStartDate ==
    \A i \in 1..Len(courseTasks) :
        isTest(courseTasks[i]) =>
            /\ firstEventOf(i).event.type = TaskTypes.test
            /\ firstEventOf(i).dateTime = OrEmpty(courseTasks[i].studentStartDate)
            /\ eventsBefore(courseTasks, i + 1) = eventsBefore(courseTasks, i) + 1

C3_Witness ==
    \E i \in 1..Len(courseTasks) :
        /\ isTest(courseTasks[i])
        /\ courseTasks[i].studentStartDate = <<1, 0, 0>>
        /\ courseTasks[i].studentEndDate = <<1, 0, 1>>
        /\ firstEventOf(i).dateTime = <<1, 0, 0>>

count(seq, e) == Cardinality({i \in 1..Len(seq) : seq[i] = e})

\* the inputs of the last applied fetch
fetchedAll == last.resp.courseEvents \o tasksToEvents(last.resp.courseTasks)
afterStartOfDay(e, day) ==
    e.dateTime # EmptyString /\ moment(e.dateTime) > 10 * day

\* C4: after a successful fetch nextEvents is non-decreasing by dateTime and
\* holds, with their multiplicity, exactly the fetched and derived events
\* strictly after the start of the current day; none has an empty dateTime.
C4_NextEventsSortedUpcoming ==
    last.op = "resolve" =>
        LET all == fetchedAll
        IN  /\ \A i, j \in 1..Len(nextEvents) :
                  i < j => localeCompare(nextEvents[i].dateTime, nextEvents[j].dateTime) <= 0
            /\ \A e \in Range(all) \cup Range(nextEvents) :
                  count(nextEvents, e) =
                      (IF afterStartOfDay(e, last.day) THEN count(all, e) ELSE 0)
            /\ \A i \in 1..Len(nextEvents) : nextEvents[i].dateTime # EmptyString

C4_Witness ==
    /\ last.op = "resolve"
    /\ Len(nextEvents) >= 2
    /\ nextEvents[1].dateTime # nextEvents[2].dateTime
    /\ nextEvents # SelectSeq(fetchedAll, LAMBDA e : afterStartOfDay(e, last.day))
    /\ \E e \in Range(fetchedAll) : e.dateTime = EmptyString
    /\ \E e \in Range(fetchedAll) : moment(e.dateTime) = 10 * last.day

bucketTasks(bucket) == {bucket[i].task : i \in 1..Len(bucket)}
completedNow == bucketTasks(tasksCompleted(courseTasks, studentSummary, tasksDetail))
notDoneNow == bucketTasks(tasksNotDone(courseTasks, studentSummary, today, browserParses))
futureNow == bucketTasks(tasksFuture(courseTasks, studentSummary, today, browserParses))

\* C5: the three buckets partition the tasks: a task with a result is in
\* completed only, a task without one is in exactly one of notDone and future.
\* Stated for the browsers that parse currentDate; in the others no task
\* without a result is in notDone or future at all.
C5_BucketsPartitionTasks ==
    (browserParses /\ ~renderThrows(studentSummary, courseTasks)) =>
        \A task \in Range(courseTasks) :
            IF \E i \in 1..Len(studentSummary.results) :
                   studentSummary.results[i].courseTaskId = task.id
            THEN task \in completedNow /\ task \notin notDoneNow /\ task \notin futureNow
            ELSE /\ task \notin completedNow
                 /\ (task \in notDoneNow) # (task \in futureNow)

\* C6: a fetch whose batch rejects leaves studentSummary, courseTasks,
\* tasksDetail and nextEvents as they were, raises exactly one notification
\* and ends with loading false; every settled fetch ends with loading false.
C6_RejectedFetchChangesNothing ==
    [][/\ last'.op = "reject" =>
            /\ UNCHANGED <<studentSummary, courseTasks, tasksDetail, nextEvents>>
            /\ notifications' = notifications + 1
            /\ loading' = FALSE
       /\ last'.op = "resolve" => loading' = FALSE /\ notifications' = notifications]_vars

C6_Witness ==
    /\ last.op = "reject"
    /\ last.rejected = 3
    /\ courseTasks # <<>>
    /\ nextEvents # <<>>
    /\ notifications = 1
    /\ ~loading

\* C7: after a successful fetch that delivers a null summary the page shows
\* the no-access result, whatever the fetched task list is.
C7_NullSummaryShowsNoAccess ==
    (last.op = "resolve" /\ last.resp.studentSummary.isNull) =>
        view(studentSummary, courseTasks).kind = "no-access"

CardOrder == <<"main-stats", "repository", "mentor", "task-stats", "next-events">>

\* C8: whenever cards are assembled the list is CardOrder restricted to:
\* repository and next-events always, main-stats iff the summary is truthy,
\* mentor iff the summary has a mentor, task-stats iff there are tasks.
C8_CardsInOrderNoPlaceholder ==
    ~renderThrows(studentSummary, courseTasks) =>
        LET present(c) ==
                CASE c = "main-stats" -> ~studentSummary.isNull
                  [] c = "mentor" -> ~studentSummary.isNull /\ studentSummary.mentor
                  [] c = "task-stats" -> Len(courseTasks) > 0
                  [] OTHER -> TRUE
        IN  cards(studentSummary, courseTasks) = SelectSeq(CardOrder, present)

C8_Witness ==
    /\ last.op = "resolve"
    /\ ~renderThrows(studentSummary, courseTasks)
    /\ courseTasks = <<>>
    /\ studentSummary.mentor
    /\ cards(studentSummary, courseTasks) = <<"main-stats", "repository", "mentor", "next-events">>

\* C9: loading is true whenever a fetch batch has started and not settled.
C9_LoadingWhileInFlight ==
    inflight # {} => loading

\* C10: a response is applied whatever course it was requested for: after a
\* successful fetch the four state variables hold that fetch's data, also
\* when the course has changed since the fetch started.
C10_StaleResponseApplied ==
    last.op = "resolve" =>
        /\ studentSummary = last.resp.studentSummary
        /\ courseTasks = last.resp.courseTasks
        /\ tasksDetail = tasksDetailCurrentCourse(last.resp.statisticsCourses, last.course)
        /\ nextEvents = computeNextEvents(last.resp.courseEvents, last.resp.courseTasks, last.day)

\* the fetch for the old course settled last: its data is on the page of the new course
C10_Witness ==
    /\ last.op = "resolve"
    /\ inflight = {}
    /\ callId = 2
    /\ last.id = 1
    /\ last.course # course
    /\ ~crashed
    /\ courseTasks # <<>> /\ courseTasks[1].id = 10 * last.course + 1
    /\ tasksDetail # <<>> /\ tasksDetail[1].name = 10 * last.course + 1
    /\ nextEvents # <<>> /\ nextEvents[1].id = 100 * last.course
    /\ studentSummary.results # <<>>
    /\ studentSummary.results[1].courseTaskId = 10 * last.course + 1

====
